---- MODULE Spec2Model ----
(***************************************************************************)
(* Model of src-tauri/src/lib.rs of mymemo: the in-memory memo store       *)
(* (AppState.memos under a Mutex), the save_pending flag, the debounced    *)
(* flush threads spawned by schedule_save, the synchronous flush           *)
(* save_immediately, the commands create_memo / update_memo / delete_memo /*)
(* load_memos and the tray actions "new" and "quit".                       *)
(*                                                                         *)
(* Every command is run by a caller thread and is split at the points      *)
(* where another thread can interleave: acquiring the Mutex, the critical  *)
(* section up to the release of the guard, the atomic swap/store on        *)
(* save_pending, the call of fs::write, the emit.  thread::sleep is        *)
(* abstracted: a sleeping flush thread may wake at any later moment.       *)
(*                                                                         *)
(* Specifications: Spec (fs::write is one step that may fail), SpecOk (it  *)
(* never fails), SpecIO (fs::write as File::create + write_all), SpecBoot  *)
(* (the process may be started again after app.exit), SpecCreate (only     *)
(* create_memo, memos differing in updated_at), SpecLive (one caller       *)
(* thread, weak fairness of the threads' steps).                           *)
(***************************************************************************)
EXTENDS Integers, Sequences, FiniteSets, TLC

\* ------------------------------------------------------------------ bounds
\* Number of commands and tray actions started in one run.
MaxOps == 3

\* Caller threads that may run commands concurrently.
Callers == {1, 2}

\* Identities supplied by callers of create_memo / update_memo / delete_memo.
Ids == {1, 2}

\* Values SystemTime::now() may return (milliseconds).
Times == {5}

\* Flush threads: schedule_save spawns at most one per create/update.
Tasks == 1..MaxOps

\* ------------------------------------------------------------- data types
\* Option<T> is a sequence of length 0 (None) or 1 (Some).
None == <<>>
Some(x) == <<x>>

W1 == [is_open |-> TRUE, x |-> 10, y |-> 20, width |-> 300, height |-> 350,
       always_on_top |-> FALSE]

MkMemo(i, t, c, col, ts, w) ==
    [id |-> i, title |-> t, content |-> c, color |-> col, updated_at |-> ts,
     window |-> w]

\* The first identity uuid::Uuid::new_v4() is modelled to produce is UuidBase + 1.
UuidBase == 100
Uuid(k) == UuidBase + k

\* Memo values a caller passes to create_memo.
CreateInputs ==
    {MkMemo(1, "t1", "c1", "yellow", 1, None),
     MkMemo(2, "t2", "", "blue", 2, Some(W1))}

\* Memos that differ only in the updated_at the caller supplies.
TimestampInputs ==
    {MkMemo(1, "t1", "c1", "yellow", ts, None) : ts \in {1, 2}}

\* MemoUpdate values a caller passes to update_memo.
MkUpdate(t, c, col, w) == [title |-> t, content |-> c, color |-> col, window |-> w]
UpdateInputs ==
    {MkUpdate(Some("t3"), None, None, None),
     MkUpdate(None, Some("c3"), Some("pink"), Some(W1))}

\* ------------------------------------------------------- file encoding
\* serde_json encoding of WindowState / Memo (field renames, window skipped
\* when None) and its decoding.
\* A decoder that ignores the window of a memo.
MemoFromJsonNoWindow(j) ==
    [id |-> j.id, title |-> j.title, content |-> j.content, color |-> j.color,
     updated_at |-> j.updatedAt, window |-> None]

WindowToJson(w) ==
    [isOpen |-> w.is_open, x |-> w.x, y |-> w.y, width |-> w.width,
     height |-> w.height, alwaysOnTop |-> w.always_on_top]

WindowFromJson(j) ==
    [is_open |-> j.isOpen, x |-> j.x, y |-> j.y, width |-> j.width,
     height |-> j.height, always_on_top |-> j.alwaysOnTop]

MemoToJson(m) ==
    IF m.window = None
    THEN [id |-> m.id, title |-> m.title, content |-> m.content,
          color |-> m.color, updatedAt |-> m.updated_at]
    ELSE [id |-> m.id, title |-> m.title, content |-> m.content,
          color |-> m.color, updatedAt |-> m.updated_at,
          window |-> WindowToJson(m.window[1])]

MemoFromJson(j) ==
    [id |-> j.id, title |-> j.title, content |-> j.content, color |-> j.color,
     updated_at |-> j.updatedAt,
     window |-> IF "window" \in DOMAIN j THEN Some(WindowFromJson(j.window))
                ELSE None]

ToJson(ms) == [k \in 1..Len(ms) |-> MemoToJson(ms[k])]
FromJson(js) == [k \in 1..Len(js) |-> MemoFromJson(js[k])]

\* The file memos.json: absent, not decodable, or a JSON array of memos.
FileAbsent == [kind |-> "absent", body |-> <<>>]
FileGarbage == [kind |-> "garbage", body |-> <<>>]
FileJson(ms) == [kind |-> "json", body |-> ToJson(ms)]

load_memos_from_file(f) ==
    IF f.kind = "json" THEN FromJson(f.body) ELSE <<>>

\* save_memos_to_file(&memos): ok = fs::write succeeded.
save_memos_to_file(f, ms, ok) ==
    IF ok THEN FileJson(ms) ELSE f

\* fs::write is File::create (open with truncation) followed by write_all
\* from offset 0.  A file that was truncated and not written since:
FileEmpty == [kind |-> "empty", body |-> <<>>]

\* write_all of the encoding of ms at offset 0 of file f.  The file is
\* modelled at the granularity of encoded memos: the bytes written replace a
\* prefix of what the file holds and the rest stays, which leaves a mixture
\* when another writer has put a longer content there in the meantime.
write_all(f, ms) ==
    IF Len(ms) >= Len(f.body)
    THEN FileJson(ms)
    ELSE [kind |-> "torn",
          body |-> ToJson(ms) \o SubSeq(f.body, Len(ms) + 1, Len(f.body))]

\* Files the program may find at startup.
InitFiles ==
    {FileAbsent, FileGarbage, FileJson(<<MkMemo(1, "t0", "c0", "green", 3, None)>>)}

\* ------------------------------------------------------- store helpers
HasId(ms, i) == \E k \in 1..Len(ms) : ms[k].id = i

IdsOf(ms) == [k \in 1..Len(ms) |-> ms[k].id]

\* A store that appends instead of inserting at the front.
InsertBack(ms, m) == ms \o <<m>>

\* memos.insert(0, memo)
InsertFront(ms, m) == <<m>> \o ms

\* A lookup that falls back to the first memo when no identity matches.
FindIdxOrFirst(ms, i) ==
    IF HasId(ms, i)
    THEN CHOOSE k \in 1..Len(ms) :
            ms[k].id = i /\ \A j \in 1..(k - 1) : ms[j].id # i
    ELSE IF Len(ms) > 0 THEN 1 ELSE 0

\* memos.iter_mut().find(|m| m.id == id): index of the first match, 0 if none.
FindIdx(ms, i) ==
    IF HasId(ms, i)
    THEN CHOOSE k \in 1..Len(ms) :
            ms[k].id = i /\ \A j \in 1..(k - 1) : ms[j].id # i
    ELSE 0

\* A removal that drops only the first memo with the identity.
RemoveFirst(ms, i) ==
    LET k == FindIdx(ms, i) IN
    IF k = 0 THEN ms ELSE SubSeq(ms, 1, k - 1) \o SubSeq(ms, k + 1, Len(ms))

\* memos.retain(|m| m.id != id)
Retain(ms, i) == SelectSeq(ms, LAMBDA m : m.id # i)

\* An update that assigns every field, supplied or not.
ApplyUpdateAll(m, u, now) ==
    [id |-> m.id,
     title |-> IF u.title # None THEN u.title[1] ELSE "",
     content |-> IF u.content # None THEN u.content[1] ELSE "",
     color |-> IF u.color # None THEN u.color[1] ELSE "",
     updated_at |-> now,
     window |-> u.window]

\* The field assignments of update_memo on the found memo.
ApplyUpdate(m, u, now) ==
    [id |-> m.id,
     title |-> IF u.title # None THEN u.title[1] ELSE m.title,
     content |-> IF u.content # None THEN u.content[1] ELSE m.content,
     color |-> IF u.color # None THEN u.color[1] ELSE m.color,
     updated_at |-> now,
     window |-> IF u.window # None THEN Some(u.window[1]) ELSE m.window]

\* A tray action that reuses one identity for every new memo.
TrayMemoSameId(k, now) == MkMemo(Uuid(1), "new memo", "", "yellow", now, None)

\* The Memo the tray action "new" builds.
TrayMemo(k, now) == MkMemo(Uuid(k), "new memo", "", "yellow", now, None)

\* ------------------------------------------------------------- state
VARIABLES
    memos,          \* AppState.memos (the Vec<Memo> inside the Mutex)
    save_pending,   \* AppState.save_pending
    lockHolder,     \* who holds the Mutex guard
    file,           \* content of memos.json
    exited,         \* app.exit(0) was called
    pc,             \* position of each caller thread
    op,             \* command each caller runs
    argId,          \* id argument (update_memo, delete_memo)
    argUpd,         \* update argument (update_memo)
    memoLocal,      \* create_memo: memo; update_memo: updated_memo; tray: new_memo
    snap,           \* the clone of memos a caller holds (save_immediately, load_memos)
    res,            \* result returned to the caller
    emitted,        \* events the current call has emitted
    tpc,            \* position of each flush thread
    tsnap,          \* the clone of memos a flush thread holds
    nTasks,         \* flush threads spawned so far
    nOps,           \* commands started so far
    nUuid,          \* uuids generated so far
    \* History variables: they record what happened and steer nothing.
    call,           \* per call: did it change the store, did it write, was its id re-created
    created,        \* ids inserted by create_memo
    gone,           \* ids of `created` whose delete has flushed, not inserted since
    burst           \* per flush thread: fs::write calls and disturbances while it lives

vars == <<memos, save_pending, lockHolder, file, exited, pc, op, argId, argUpd,
          memoLocal, snap, res, emitted, tpc, tsnap, nTasks, nOps, nUuid,
          call, created, gone, burst>>

NoHolder == <<"none", 0>>
CallerH(c) == <<"caller", c>>
TaskH(t) == <<"task", t>>

NoUpdate == MkUpdate(None, None, None, None)

NewCall == [committed |-> FALSE, wrote |-> "no", recreated |-> "no"]
NewBurst == [clean |-> TRUE, writes |-> 0]

\* AppState::new(): memos loaded from the file, save_pending false.
Init ==
    /\ file \in InitFiles
    /\ memos = load_memos_from_file(file)
    /\ save_pending = FALSE
    /\ lockHolder = NoHolder
    /\ exited = FALSE
    /\ pc = [c \in Callers |-> "idle"]
    /\ op = [c \in Callers |-> "none"]
    /\ argId = [c \in Callers |-> 0]
    /\ argUpd = [c \in Callers |-> NoUpdate]
    /\ memoLocal = [c \in Callers |-> None]
    /\ snap = [c \in Callers |-> <<>>]
    /\ res = [c \in Callers |-> "none"]
    /\ emitted = [c \in Callers |-> <<>>]
    /\ tpc = [t \in Tasks |-> "unborn"]
    /\ tsnap = [t \in Tasks |-> <<>>]
    /\ nTasks = 0
    /\ nOps = 0
    /\ nUuid = 0
    /\ call = [c \in Callers |-> NewCall]
    /\ created = {}
    /\ gone = {}
    /\ burst = [t \in Tasks |-> NewBurst]

\* ------------------------------------------------------------ history
Alive(t) == tpc[t] \in {"sleep", "clone", "write", "wrall", "clear"}

Idle(c) == pc[c] \in {"idle", "done"}

\* An fs::write call returned: every living flush thread has seen one more.
NoteWrite ==
    burst' = [t \in Tasks |->
                 IF Alive(t) THEN [burst[t] EXCEPT !.writes = @ + 1] ELSE burst[t]]

\* A delete, tray "new" or quit begins: no living flush thread has a window
\* of create/update only any more.
NoteDisturb ==
    burst' = [t \in Tasks |->
                 IF Alive(t) THEN [burst[t] EXCEPT !.clean = FALSE] ELSE burst[t]]

\* A create/update committed: it came too late for the flush threads that
\* have already read the store.
NoteLate ==
    burst' = [t \in Tasks |->
                 IF tpc[t] \in {"write", "wrall", "clear"}
                 THEN [burst[t] EXCEPT !.clean = FALSE] ELSE burst[t]]

\* Caller c inserted a memo with identity i.
NoteInsert(c, i) ==
    call' = [d \in Callers |->
                IF d = c THEN [call[d] EXCEPT !.committed = TRUE]
                ELSE IF op[d] = "delete" /\ argId[d] = i /\ call[d].recreated = "no"
                        /\ pc[d] \in {"s_lock", "s_write"}
                THEN [call[d] EXCEPT !.recreated =
                         IF pc[d] = "s_lock" THEN "before" ELSE "after"]
                ELSE call[d]]

\* ------------------------------------------------------- caller threads
\* A caller that starts a command without waiting for the Mutex.
CanStartNoLock(c) ==
    /\ ~exited
    /\ nOps < MaxOps
    /\ Idle(c)
    /\ \A d \in Callers : d < c => ~Idle(d)

\* A caller may start a command while the process runs.  Callers are
\* interchangeable, so caller c starts only when all lower callers are busy.
\* Nothing a command does before its first state.memos.lock() touches shared
\* state, so a command enters the model at the moment that lock() succeeds.
CanStart(c) ==
    /\ ~exited
    /\ nOps < MaxOps
    /\ Idle(c)
    /\ \A d \in Callers : d < c => ~Idle(d)
    /\ lockHolder = NoHolder

\* Entry of a command: parameters bound, the Mutex guard just obtained.
Enter(c, o, first, i, u, m) ==
    /\ pc' = [pc EXCEPT ![c] = first]
    /\ lockHolder' = CallerH(c)
    /\ op' = [op EXCEPT ![c] = o]
    /\ argId' = [argId EXCEPT ![c] = i]
    /\ argUpd' = [argUpd EXCEPT ![c] = u]
    /\ memoLocal' = [memoLocal EXCEPT ![c] = m]
    /\ snap' = [snap EXCEPT ![c] = <<>>]
    /\ res' = [res EXCEPT ![c] = "none"]
    /\ emitted' = [emitted EXCEPT ![c] = <<>>]
    /\ call' = [call EXCEPT ![c] = NewCall]
    /\ nOps' = nOps + 1

\* create_memo(app, state, memo) is invoked with a memo of Inputs and locks
\* the store.
StartCreateIn(c, Inputs) ==
    /\ CanStart(c)
    /\ \E m \in Inputs : Enter(c, "create", "m_body", m.id, NoUpdate, Some(m))
    /\ UNCHANGED <<memos, save_pending, file, exited, tpc, tsnap, nTasks, nUuid, created, gone, burst>>

StartCreate(c) == StartCreateIn(c, CreateInputs)

\* update_memo(app, state, id, update) is invoked and locks the store.
StartUpdate(c) ==
    /\ CanStart(c)
    /\ \E i \in Ids, u \in UpdateInputs : Enter(c, "update", "m_body", i, u, None)
    /\ UNCHANGED <<memos, save_pending, file, exited, tpc, tsnap, nTasks, nUuid, created, gone, burst>>

\* delete_memo(app, state, id) is invoked and locks the store.
StartDelete(c) ==
    /\ CanStart(c)
    /\ \E i \in Ids \cup {Uuid(k) : k \in 1..nUuid} :
          Enter(c, "delete", "m_body", i, NoUpdate, None)
    /\ NoteDisturb
    /\ UNCHANGED <<memos, save_pending, file, exited, tpc, tsnap, nTasks, nUuid, created, gone>>

\* load_memos(state) is invoked and locks the store.
StartList(c) ==
    /\ CanStart(c)
    /\ Enter(c, "list", "m_body", 0, NoUpdate, None)
    /\ UNCHANGED <<memos, save_pending, file, exited, tpc, tsnap, nTasks, nUuid, created, gone, burst>>

\* Tray menu "new": memo_id and new_memo are built, then the store is locked.
StartTray(c) ==
    /\ CanStart(c)
    /\ \E now \in Times :
          Enter(c, "tray", "m_body", Uuid(nUuid + 1), NoUpdate,
                Some(TrayMemo(nUuid + 1, now)))
    /\ nUuid' = nUuid + 1
    /\ NoteDisturb
    /\ UNCHANGED <<memos, save_pending, file, exited, tpc, tsnap, nTasks, created, gone>>

\* Tray menu "quit": save_immediately locks the store.
StartQuit(c) ==
    /\ CanStart(c)
    /\ Enter(c, "quit", "s_clone", 0, NoUpdate, None)
    /\ NoteDisturb
    /\ UNCHANGED <<memos, save_pending, file, exited, tpc, tsnap, nTasks, nUuid, created, gone>>

\* save_immediately called by delete_memo or the tray "new":
\* state.memos.lock().unwrap() blocks until the Mutex is free.
Lock(c) ==
    /\ ~exited
    /\ pc[c] = "s_lock"
    /\ lockHolder = NoHolder
    /\ lockHolder' = CallerH(c)
    /\ pc' = [pc EXCEPT ![c] = "s_clone"]
    /\ UNCHANGED <<memos, save_pending, file, exited, op, argId, argUpd, memoLocal,
                   snap, res, emitted, tpc, tsnap, nTasks, nOps, nUuid,
                   call, created, gone, burst>>

\* create_memo: memos.insert(0, memo.clone()); the guard is dropped at the
\* end of the block.
CreateInsert(c) ==
    /\ ~exited
    /\ pc[c] = "m_body" /\ op[c] = "create"
    /\ memos' = InsertFront(memos, memoLocal[c][1])
    /\ lockHolder' = NoHolder
    /\ pc' = [pc EXCEPT ![c] = "sched"]
    /\ NoteInsert(c, memoLocal[c][1].id)
    /\ NoteLate
    /\ created' = created \cup {memoLocal[c][1].id}
    /\ gone' = gone \ {memoLocal[c][1].id}
    /\ UNCHANGED <<save_pending, file, exited, op, argId, argUpd, memoLocal, snap,
                   res, emitted, tpc, tsnap, nTasks, nOps, nUuid>>

\* Tray "new": memos.insert(0, new_memo.clone()); the guard is dropped.
TrayInsert(c) ==
    /\ ~exited
    /\ pc[c] = "m_body" /\ op[c] = "tray"
    /\ memos' = InsertFront(memos, memoLocal[c][1])
    /\ lockHolder' = NoHolder
    /\ pc' = [pc EXCEPT ![c] = "s_lock"]
    /\ NoteInsert(c, memoLocal[c][1].id)
    /\ gone' = gone \ {memoLocal[c][1].id}
    /\ UNCHANGED <<save_pending, file, exited, op, argId, argUpd, memoLocal, snap,
                   res, emitted, tpc, tsnap, nTasks, nOps, nUuid, created,
                   burst>>

\* update_memo: the block under the lock.  None => return Err("Memo not found").
UpdateBody(c) ==
    /\ ~exited
    /\ pc[c] = "m_body" /\ op[c] = "update"
    /\ LET k == FindIdx(memos, argId[c]) IN
          IF k = 0
          THEN /\ res' = [res EXCEPT ![c] = "NotFound"]
               /\ pc' = [pc EXCEPT ![c] = "done"]
               /\ UNCHANGED <<memos, memoLocal, call, burst>>
          ELSE \E now \in Times :
                  /\ memos' = [memos EXCEPT ![k] = ApplyUpdate(@, argUpd[c], now)]
                  /\ memoLocal' = [memoLocal EXCEPT ![c] = Some(memos'[k])]
                  /\ pc' = [pc EXCEPT ![c] = "sched"]
                  /\ call' = [call EXCEPT ![c].committed = TRUE]
                  /\ NoteLate
                  /\ UNCHANGED res
    /\ lockHolder' = NoHolder
    /\ UNCHANGED <<save_pending, file, exited, op, argId, argUpd, snap, emitted,
                   tpc, tsnap, nTasks, nOps, nUuid, created, gone>>

\* delete_memo: the block under the lock.  Same length => return Err.
DeleteBody(c) ==
    /\ ~exited
    /\ pc[c] = "m_body" /\ op[c] = "delete"
    /\ memos' = Retain(memos, argId[c])
    /\ IF Len(memos') = Len(memos)
       THEN /\ res' = [res EXCEPT ![c] = "NotFound"]
            /\ pc' = [pc EXCEPT ![c] = "done"]
            /\ UNCHANGED call
       ELSE /\ pc' = [pc EXCEPT ![c] = "s_lock"]
            /\ call' = [call EXCEPT ![c].committed = TRUE]
            /\ UNCHANGED res
    /\ lockHolder' = NoHolder
    /\ UNCHANGED <<save_pending, file, exited, op, argId, argUpd, memoLocal, snap,
                   emitted, tpc, tsnap, nTasks, nOps, nUuid, created, gone,
                   burst>>

\* load_memos: state.memos.lock().unwrap().clone() is returned.
ListBody(c) ==
    /\ ~exited
    /\ pc[c] = "m_body" /\ op[c] = "list"
    /\ snap' = [snap EXCEPT ![c] = memos]
    /\ res' = [res EXCEPT ![c] = "Ok"]
    /\ pc' = [pc EXCEPT ![c] = "done"]
    /\ lockHolder' = NoHolder
    /\ UNCHANGED <<memos, save_pending, file, exited, op, argId, argUpd, memoLocal,
                   emitted, tpc, tsnap, nTasks, nOps, nUuid, call, created,
                   gone, burst>>

\* schedule_save: save_pending.swap(true); a flush thread is spawned only if
\* the flag was false.
ScheduleSave(c) ==
    /\ ~exited
    /\ pc[c] = "sched"
    /\ save_pending' = TRUE
    /\ IF ~save_pending
       THEN /\ nTasks' = nTasks + 1
            /\ tpc' = [tpc EXCEPT ![nTasks + 1] = "sleep"]
            /\ burst' = [burst EXCEPT ![nTasks + 1] =
                            [clean |-> \A d \in Callers :
                                          Idle(d) \/ op[d] \in {"create", "update", "list"},
                             writes |-> 0]]
       ELSE UNCHANGED <<nTasks, tpc, burst>>
    /\ pc' = [pc EXCEPT ![c] = "emit"]
    /\ UNCHANGED <<memos, lockHolder, file, exited, op, argId, argUpd, memoLocal,
                   snap, res, emitted, tsnap, nOps, nUuid, call, created,
                   gone>>

\* A save_immediately that keeps the guard until it returns.
SaveImmCloneKeepLock(c) ==
    /\ ~exited
    /\ pc[c] = "s_clone"
    /\ snap' = [snap EXCEPT ![c] = memos]
    /\ pc' = [pc EXCEPT ![c] = "s_write"]
    /\ UNCHANGED <<memos, save_pending, lockHolder, file, exited, op, argId, argUpd,
                   memoLocal, res, emitted, tpc, tsnap, nTasks, nOps, nUuid, call,
                   created, gone, burst>>

\* save_immediately: let memos = state.memos.lock().unwrap().clone();
\* The guard is a temporary and is dropped at the end of the statement.
SaveImmClone(c) ==
    /\ ~exited
    /\ pc[c] = "s_clone"
    /\ snap' = [snap EXCEPT ![c] = memos]
    /\ lockHolder' = NoHolder
    /\ pc' = [pc EXCEPT ![c] = "s_write"]
    /\ UNCHANGED <<memos, save_pending, file, exited, op, argId, argUpd, memoLocal,
                   res, emitted, tpc, tsnap, nTasks, nOps, nUuid, call,
                   created, gone, burst>>

\* Where a caller continues when save_immediately returned Err: delete_memo
\* propagates it (?), the tray "new" logs it, "quit" drops it (.ok()).
AfterSaveErr(o) ==
    CASE o = "delete" -> "done"
      [] o = "tray" -> "emit"
      [] OTHER -> "exit"

\* save_immediately: save_memos_to_file(&memos)?;  Outs: the outcomes fs::write
\* may have (TRUE = written).
SaveImmWriteOut(c, Outs) ==
    /\ ~exited
    /\ pc[c] = "s_write"
    /\ \E ok \in Outs :
          /\ file' = save_memos_to_file(file, snap[c], ok)
          /\ NoteWrite
          /\ call' = [call EXCEPT ![c].wrote = IF ok THEN "ok" ELSE "err"]
          /\ gone' = IF /\ ok /\ op[c] = "delete" /\ argId[c] \in created
                        /\ call[c].recreated = "no"
                     THEN gone \cup {argId[c]} ELSE gone
          /\ IF ok
             THEN /\ pc' = [pc EXCEPT ![c] = "s_store"]
                  /\ UNCHANGED res
             ELSE /\ pc' = [pc EXCEPT ![c] = AfterSaveErr(op[c])]
                  /\ res' = [res EXCEPT ![c] =
                                IF op[c] = "delete" THEN "StorageErr" ELSE @]
    /\ UNCHANGED <<memos, save_pending, lockHolder, exited, op, argId, argUpd,
                   memoLocal, snap, emitted, tpc, tsnap, nTasks, nOps, nUuid,
                   created>>

SaveImmWrite(c) == SaveImmWriteOut(c, BOOLEAN)

\* save_immediately: state.save_pending.store(false); Ok(())
SaveImmStore(c) ==
    /\ ~exited
    /\ pc[c] = "s_store"
    /\ save_pending' = FALSE
    /\ pc' = [pc EXCEPT ![c] = IF op[c] = "quit" THEN "exit" ELSE "emit"]
    /\ UNCHANGED <<memos, lockHolder, file, exited, op, argId, argUpd, memoLocal,
                   snap, res, emitted, tpc, tsnap, nTasks, nOps, nUuid,
                   call, created, gone, burst>>

\* The MemoEvent a command emits on "memo-changed".
EventOf(o, i, m) ==
    CASE o = "update" -> [type |-> "updated", id |-> m[1].id, memo |-> m]
      [] o = "delete" -> [type |-> "deleted", id |-> i, memo |-> None]
      [] OTHER -> [type |-> "created", id |-> m[1].id, memo |-> m]

\* app.emit("memo-changed", ...).ok(); then the command returns Ok.
Emit(c) ==
    /\ ~exited
    /\ pc[c] = "emit"
    /\ emitted' = [emitted EXCEPT ![c] = Append(@, EventOf(op[c], argId[c], memoLocal[c]))]
    /\ res' = [res EXCEPT ![c] = "Ok"]
    /\ pc' = [pc EXCEPT ![c] = "done"]
    /\ UNCHANGED <<memos, save_pending, lockHolder, file, exited, op, argId, argUpd,
                   memoLocal, snap, tpc, tsnap, nTasks, nOps, nUuid, call,
                   created, gone, burst>>

\* Tray "quit": app.exit(0) ends the process and every thread in it.
Exit(c) ==
    /\ ~exited
    /\ pc[c] = "exit"
    /\ exited' = TRUE
    /\ pc' = [pc EXCEPT ![c] = "done"]
    /\ UNCHANGED <<memos, save_pending, lockHolder, file, op, argId, argUpd,
                   memoLocal, snap, res, emitted, tpc, tsnap, nTasks, nOps, nUuid,
                   call, created, gone, burst>>

\* -------------------------------------------------------- flush threads
\* The spawned closure: the sleep is over and state.memos.lock() succeeds.
TaskLock(t) ==
    /\ ~exited
    /\ tpc[t] = "sleep"
    /\ lockHolder = NoHolder
    /\ lockHolder' = TaskH(t)
    /\ tpc' = [tpc EXCEPT ![t] = "clone"]
    /\ UNCHANGED <<memos, save_pending, file, exited, pc, op, argId, argUpd,
                   memoLocal, snap, res, emitted, tsnap, nTasks, nOps, nUuid,
                   call, created, gone, burst>>

\* let memos = state.memos.lock().unwrap().clone();
TaskClone(t) ==
    /\ ~exited
    /\ tpc[t] = "clone"
    /\ tsnap' = [tsnap EXCEPT ![t] = memos]
    /\ lockHolder' = NoHolder
    /\ tpc' = [tpc EXCEPT ![t] = "write"]
    /\ UNCHANGED <<memos, save_pending, file, exited, pc, op, argId, argUpd,
                   memoLocal, snap, res, emitted, nTasks, nOps, nUuid,
                   call, created, gone, burst>>

\* A flush thread that ends at a failed write, before the flag reset.
TaskWriteOutStuck(t, Outs) ==
    /\ ~exited
    /\ tpc[t] = "write"
    /\ \E ok \in Outs :
          /\ file' = save_memos_to_file(file, tsnap[t], ok)
          /\ NoteWrite
          /\ tpc' = [tpc EXCEPT ![t] = IF ok THEN "clear" ELSE "done"]
    /\ UNCHANGED <<memos, save_pending, lockHolder, exited, pc, op, argId, argUpd,
                   memoLocal, snap, res, emitted, tsnap, nTasks, nOps, nUuid,
                   call, created, gone>>

\* if let Err(e) = save_memos_to_file(&memos) { eprintln!(..) }
TaskWriteOut(t, Outs) ==
    /\ ~exited
    /\ tpc[t] = "write"
    /\ \E ok \in Outs :
          /\ file' = save_memos_to_file(file, tsnap[t], ok)
          /\ NoteWrite
    /\ tpc' = [tpc EXCEPT ![t] = "clear"]
    /\ UNCHANGED <<memos, save_pending, lockHolder, exited, pc, op, argId, argUpd,
                   memoLocal, snap, res, emitted, tsnap, nTasks, nOps, nUuid,
                   call, created, gone>>

TaskWrite(t) == TaskWriteOut(t, BOOLEAN)

\* A flush thread that ends without resetting the flag.
TaskClearKeep(t) ==
    /\ ~exited
    /\ tpc[t] = "clear"
    /\ tpc' = [tpc EXCEPT ![t] = "done"]
    /\ tsnap' = [tsnap EXCEPT ![t] = <<>>]
    /\ burst' = [burst EXCEPT ![t] = NewBurst]
    /\ UNCHANGED <<memos, save_pending, lockHolder, file, exited, pc, op, argId,
                   argUpd, memoLocal, snap, res, emitted, nTasks, nOps, nUuid,
                   call, created, gone>>

\* state.save_pending.store(false); the thread ends and its locals are dropped.
TaskClear(t) ==
    /\ ~exited
    /\ tpc[t] = "clear"
    /\ save_pending' = FALSE
    /\ tpc' = [tpc EXCEPT ![t] = "done"]
    /\ tsnap' = [tsnap EXCEPT ![t] = <<>>]
    /\ burst' = [burst EXCEPT ![t] = NewBurst]
    /\ UNCHANGED <<memos, lockHolder, file, exited, pc, op, argId, argUpd,
                   memoLocal, snap, res, emitted, nTasks, nOps, nUuid,
                   call, created, gone>>

SaveImmWriteOk(c) == SaveImmWriteOut(c, {TRUE})
TaskWriteOk(t) == TaskWriteOut(t, {TRUE})

\* Every step but the calls of fs::write.
Step ==
    \/ \E c \in Callers : StartCreate(c)
    \/ \E c \in Callers : StartUpdate(c)
    \/ \E c \in Callers : StartDelete(c)
    \/ \E c \in Callers : StartList(c)
    \/ \E c \in Callers : StartTray(c)
    \/ \E c \in Callers : StartQuit(c)
    \/ \E c \in Callers : Lock(c)
    \/ \E c \in Callers : CreateInsert(c)
    \/ \E c \in Callers : TrayInsert(c)
    \/ \E c \in Callers : UpdateBody(c)
    \/ \E c \in Callers : DeleteBody(c)
    \/ \E c \in Callers : ListBody(c)
    \/ \E c \in Callers : ScheduleSave(c)
    \/ \E c \in Callers : SaveImmClone(c)
    \/ \E c \in Callers : SaveImmStore(c)
    \/ \E c \in Callers : Emit(c)
    \/ \E c \in Callers : Exit(c)
    \/ \E t \in Tasks : TaskLock(t)
    \/ \E t \in Tasks : TaskClone(t)
    \/ \E t \in Tasks : TaskClear(t)

Next ==
    \/ Step
    \/ \E c \in Callers : SaveImmWrite(c)
    \/ \E t \in Tasks : TaskWrite(t)

\* The program with a disk on which every fs::write succeeds.
NextOk ==
    \/ Step
    \/ \E c \in Callers : SaveImmWriteOk(c)
    \/ \E t \in Tasks : TaskWriteOk(t)

Spec == Init /\ [][Next]_vars

\* A step of a command in progress or of a flush thread.
Progress ==
    \/ \E c \in Callers :
          \/ Lock(c) \/ CreateInsert(c) \/ TrayInsert(c) \/ UpdateBody(c)
          \/ DeleteBody(c) \/ ListBody(c) \/ ScheduleSave(c) \/ SaveImmClone(c)
          \/ SaveImmWrite(c) \/ SaveImmStore(c) \/ Emit(c) \/ Exit(c)
    \/ \E t \in Tasks : TaskLock(t) \/ TaskClone(t) \/ TaskWrite(t) \/ TaskClear(t)

\* Caller c starts some command.
Starts(c) ==
    \/ StartCreate(c) \/ StartUpdate(c) \/ StartDelete(c)
    \/ StartList(c) \/ StartTray(c) \/ StartQuit(c)

\* The program when all commands and tray actions come from one caller
\* thread (the main thread), one after the other.
NextLive ==
    \/ \E c \in Callers : (\A d \in Callers : c <= d) /\ Starts(c)
    \/ Progress

\* That program on a machine that keeps running its threads: while a command
\* in progress or a flush thread can take a step, one of them does.
SpecLive == Init /\ [][NextLive]_vars /\ WF_vars(Progress)

\* The process is started again after app.exit(0): run() builds a new
\* AppState from the file; the threads of the ended process are gone.
Startup ==
    /\ exited
    /\ exited' = FALSE
    /\ memos' = load_memos_from_file(file)
    /\ save_pending' = FALSE
    /\ lockHolder' = NoHolder
    /\ pc' = [c \in Callers |-> "idle"]
    /\ op' = [c \in Callers |-> "none"]
    /\ argId' = [c \in Callers |-> 0]
    /\ argUpd' = [c \in Callers |-> NoUpdate]
    /\ memoLocal' = [c \in Callers |-> None]
    /\ snap' = [c \in Callers |-> <<>>]
    /\ res' = [c \in Callers |-> "none"]
    /\ emitted' = [c \in Callers |-> <<>>]
    /\ tpc' = [t \in Tasks |-> IF t <= nTasks THEN "done" ELSE "unborn"]
    /\ tsnap' = [t \in Tasks |-> <<>>]
    /\ call' = [c \in Callers |-> NewCall]
    /\ created' = {}
    /\ gone' = {}
    /\ burst' = [t \in Tasks |-> NewBurst]
    /\ UNCHANGED <<file, nTasks, nOps, nUuid>>

\* The program over several runs of the process.
NextBoot ==
    \/ Next
    \/ Startup

SpecBoot == Init /\ [][NextBoot]_vars

\* fs::write as the two system calls it makes, both succeeding.
\* save_immediately, File::create: the file is truncated.
SaveImmOpen(c) ==
    /\ ~exited
    /\ pc[c] = "s_write"
    /\ file' = FileEmpty
    /\ pc' = [pc EXCEPT ![c] = "s_wrall"]
    /\ UNCHANGED <<memos, save_pending, lockHolder, exited, op, argId, argUpd,
                   memoLocal, snap, res, emitted, tpc, tsnap, nTasks, nOps, nUuid,
                   call, created, gone, burst>>

\* save_immediately, write_all: the snapshot is written from offset 0.
SaveImmWriteAll(c) ==
    /\ ~exited
    /\ pc[c] = "s_wrall"
    /\ file' = write_all(file, snap[c])
    /\ NoteWrite
    /\ call' = [call EXCEPT ![c].wrote = "ok"]
    /\ gone' = IF /\ op[c] = "delete" /\ argId[c] \in created
                  /\ call[c].recreated = "no"
               THEN gone \cup {argId[c]} ELSE gone
    /\ pc' = [pc EXCEPT ![c] = "s_store"]
    /\ UNCHANGED <<memos, save_pending, lockHolder, exited, op, argId, argUpd,
                   memoLocal, snap, res, emitted, tpc, tsnap, nTasks, nOps, nUuid,
                   created>>

\* Flush thread, File::create: the file is truncated.
TaskOpen(t) ==
    /\ ~exited
    /\ tpc[t] = "write"
    /\ file' = FileEmpty
    /\ tpc' = [tpc EXCEPT ![t] = "wrall"]
    /\ UNCHANGED <<memos, save_pending, lockHolder, exited, pc, op, argId, argUpd,
                   memoLocal, snap, res, emitted, tsnap, nTasks, nOps, nUuid,
                   call, created, gone, burst>>

\* Flush thread, write_all: the snapshot is written from offset 0.
TaskWriteAll(t) ==
    /\ ~exited
    /\ tpc[t] = "wrall"
    /\ file' = write_all(file, tsnap[t])
    /\ NoteWrite
    /\ tpc' = [tpc EXCEPT ![t] = "clear"]
    /\ UNCHANGED <<memos, save_pending, lockHolder, exited, pc, op, argId, argUpd,
                   memoLocal, snap, res, emitted, tsnap, nTasks, nOps, nUuid,
                   call, created, gone>>

NextIO ==
    \/ Step
    \/ \E c \in Callers : SaveImmOpen(c)
    \/ \E c \in Callers : SaveImmWriteAll(c)
    \/ \E t \in Tasks : TaskOpen(t)
    \/ \E t \in Tasks : TaskWriteAll(t)

SpecIO == Init /\ [][NextIO]_vars

\* The program when the only command invoked is create_memo, with memos that
\* differ only in updated_at.
StartCreateTs(c) == StartCreateIn(c, TimestampInputs)

NextCreate ==
    \/ \E c \in Callers : StartCreateTs(c)
    \/ \E c \in Callers : CreateInsert(c)
    \/ \E c \in Callers : ScheduleSave(c)
    \/ \E c \in Callers : Emit(c)
    \/ \E t \in Tasks : TaskLock(t)
    \/ \E t \in Tasks : TaskClone(t)
    \/ \E t \in Tasks : TaskWrite(t)
    \/ \E t \in Tasks : TaskClear(t)

SpecCreate == Init /\ [][NextCreate]_vars

SpecOk == Init /\ [][NextOk]_vars

\* ----------------------------------------------------------- properties
FileMemos == load_memos_from_file(file)

NoDup(ms) == \A j, k \in 1..Len(ms) : j # k => ms[j].id # ms[k].id

Quiescent ==
    /\ ~exited
    /\ \A c \in Callers : Idle(c)
    /\ \A t \in Tasks : ~Alive(t)

\* C1 (as claimed): when a flush thread ends after a window in which only
\* create/update ran and all of them committed before it read the store,
\* exactly one fs::write was called in the window and it wrote the store as
\* it is after the last of them.
C1_Coalescing ==
    [][\A t \in Tasks :
          (tpc[t] = "clear" /\ tpc'[t] = "done" /\ burst[t].clean)
              => (burst[t].writes = 1 /\ tsnap[t] = memos)]_vars

\* C2 (as claimed): with every fs::write succeeding, whenever no command is
\* in progress and no flush thread is alive, the file decodes to the store.
C2_NoCommittedStateLost == Quiescent => FileMemos = memos

\* C3 (as claimed): a delete_memo that found its id has called fs::write
\* before it returns, with a snapshot that holds no memo of that id.
C3_DeleteSnapshotWithoutId ==
    \A c \in Callers :
        (op[c] = "delete" /\ pc[c] = "done" /\ call[c].committed)
            => (call[c].wrote # "no" /\ ~HasId(snap[c], argId[c]))

\* C3 (amended): a delete_memo that found its id has called fs::write before
\* it returns, and the snapshot it passed holds a memo of that id only if
\* another caller inserted one between the removal and the snapshot.
C3_DeleteFlushes ==
    \A c \in Callers :
        (op[c] = "delete" /\ pc[c] = "done" /\ call[c].committed)
            => /\ call[c].wrote # "no"
               /\ HasId(snap[c], argId[c]) => call[c].recreated = "before"

C3_Witness ==
    \E c \in Callers :
        /\ op[c] = "delete" /\ pc[c] = "done" /\ call[c].committed
        /\ call[c].wrote = "ok" /\ res[c] = "Ok"
        /\ snap[c] # <<>> /\ ~HasId(snap[c], argId[c])

\* C4 (as claimed): once the flush of a delete of a created note has landed,
\* and while the note is not created again, the file holds no memo of its id.
C4_NoStaleWriteAfterDelete ==
    \A i \in gone : ~HasId(FileMemos, i)

\* C5: update_memo / delete_memo on an id that is not in the store return
\* NotFound in the step that looks it up, and that step changes neither the
\* store, the file, save_pending, the flush threads nor the emitted events.
C5_NotFoundChangesNothing ==
    [][\A c \in Callers :
          (/\ pc[c] = "m_body" /\ op[c] \in {"update", "delete"}
           /\ pc'[c] # "m_body" /\ ~HasId(memos, argId[c]))
              => /\ res'[c] = "NotFound" /\ pc'[c] = "done"
                 /\ memos' = memos /\ file' = file
                 /\ save_pending' = save_pending /\ tpc' = tpc
                 /\ emitted'[c] = <<>> /\ call'[c] = NewCall]_vars

C5_Witness ==
    \E c \in Callers :
        /\ pc[c] = "done" /\ res[c] = "NotFound" /\ op[c] = "delete"
        /\ memos # <<>> /\ save_pending

\* C6 (as claimed): a delete_memo whose fs::write failed still returns Ok.
C6_StorageErrorNotRaised ==
    \A c \in Callers :
        (op[c] = "delete" /\ pc[c] = "done" /\ call[c].wrote = "err")
            => res[c] = "Ok"

\* C7 (as claimed): after quit has written successfully and the process has
\* exited, the file decodes to the store as quit saw it.  Stated for the runs
\* where nothing was committed after quit's snapshot and the other callers
\* ran only create/update/load, so that any other write is a debounced one.
C7_QuitLosesNothing ==
    \A c \in Callers :
        (/\ exited /\ op[c] = "quit" /\ call[c].wrote = "ok" /\ snap[c] = memos
         /\ \A d \in Callers \ {c} : op[d] \in {"none", "create", "update", "list"})
            => FileMemos = memos

\* C8 (as claimed): no two memos of the store have the same id.
C8_UniqueIds == NoDup(memos)

\* A create_memo commits a memo whose id is already in the store.
DupCreate ==
    \E c \in Callers :
        /\ pc[c] = "m_body" /\ op[c] = "create" /\ pc'[c] = "sched"
        /\ HasId(memos, argId[c])

\* The ids of the store are unchanged, or one was put in front, or all
\* memos of one id were removed.
IdsKept ==
    \/ IdsOf(memos') = IdsOf(memos)
    \/ Len(memos') = Len(memos) + 1 /\ Tail(IdsOf(memos')) = IdsOf(memos)
    \/ \E i \in {memos[k].id : k \in 1..Len(memos)} :
          IdsOf(memos') = SelectSeq(IdsOf(memos), LAMBDA j : j # i)

\* C8 (amended): no step changes the id of a stored memo, and every step
\* except a create_memo with an id already in the store keeps ids unique.
C8_IdentityPreserved ==
    [][/\ IdsKept
       /\ (NoDup(memos) /\ ~DupCreate) => NoDup(memos')]_vars

C8_Witness ==
    /\ NoDup(memos) /\ Len(memos) >= 3
    /\ \E c \in Callers : op[c] = "create" /\ pc[c] = "sched"
    /\ \E k \in 1..Len(memos) : memos[k].id = Uuid(1)

\* C9: create_memo never fails, the step that commits it puts the new memo
\* in front of the unchanged store, and load_memos returns the store.
C9_CreatePrepends ==
    /\ [](\A c \in Callers : (op[c] = "create" /\ pc[c] = "done") => res[c] = "Ok")
    /\ [][\A c \in Callers :
             /\ (pc[c] = "m_body" /\ op[c] = "create" /\ pc'[c] # "m_body")
                   => (memos' = <<memoLocal[c][1]>> \o memos /\ pc'[c] = "sched")
             /\ (pc[c] = "m_body" /\ op[c] = "list" /\ pc'[c] # "m_body")
                   => (snap'[c] = memos /\ memos' = memos)]_vars

C9_Witness ==
    \E c \in Callers :
        /\ op[c] = "create" /\ pc[c] = "sched"
        /\ Len(memos) >= 2 /\ memos[1] = memoLocal[c][1]

\* The MemoEvent variant that matches a command.
Variant(o) ==
    CASE o = "update" -> "updated"
      [] o = "delete" -> "deleted"
      [] OTHER -> "created"

\* C10 (as claimed): a command that changed the store has emitted exactly
\* one event of its variant when it returns; an event is emitted only after
\* the change is committed and the lock released; a delete_memo returns Ok
\* only after its write.
C10_OneNotification ==
    \A c \in Callers :
        /\ (pc[c] = "done" /\ call[c].committed)
              => (Len(emitted[c]) = 1 /\ emitted[c][1].type = Variant(op[c]))
        /\ pc[c] = "emit" => (call[c].committed /\ lockHolder # CallerH(c))
        /\ emitted[c] # <<>> => call[c].committed
        /\ (op[c] = "delete" /\ pc[c] = "done" /\ res[c] = "Ok")
              => call[c].wrote = "ok"

\* m is one of the memos of ms.
In(m, ms) == \E k \in 1..Len(ms) : ms[k] = m

\* Caller c commits a create_memo / update_memo in this step.
Commits(c) ==
    pc[c] = "m_body" /\ op[c] \in {"create", "update"} /\ pc'[c] = "sched"

\* C11: no lost update.  The step that commits a create_memo / update_memo
\* runs with the Mutex held by its caller, leaves the caller's memo in the
\* store and keeps the memo committed by another caller's create/update on a
\* different id; the rest of the call (schedule_save, emit) leaves the store
\* alone, so both memos are in the store when both calls have returned.
C11_NoLostUpdate ==
    [][\A c \in Callers :
          /\ Commits(c) =>
                /\ lockHolder = CallerH(c)
                /\ In(memoLocal'[c][1], memos')
                /\ \A d \in Callers \ {c} :
                      (/\ op[d] \in {"create", "update"} /\ call[d].committed
                       /\ argId[d] # argId[c] /\ In(memoLocal[d][1], memos))
                          => In(memoLocal[d][1], memos')
          /\ (pc[c] \in {"sched", "emit"} /\ pc'[c] # pc[c]) => memos' = memos]_vars

C11_Witness ==
    \E c, d \in Callers :
        /\ c # d /\ pc[c] = "emit" /\ pc[d] \in {"emit", "done"}
        /\ op[c] = "update" /\ op[d] = "create" /\ res[d] # "NotFound"
        /\ argId[c] # argId[d]
        /\ In(memoLocal[c][1], memos) /\ In(memoLocal[d][1], memos)

\* Field f of the memo after an update: the supplied value, else the old one.
Supplied(u, f, old) == IF u[f] # None THEN u[f][1] ELSE old

\* C12: the step of update_memo that finds its id changes, in the first memo
\* with that id, exactly the fields the MemoUpdate supplies and updated_at
\* (set from the clock); the id, the fields not supplied, every other memo
\* and the order of the store are unchanged.
C12_UpdateFrame ==
    [][\A c \in Callers :
          (/\ pc[c] = "m_body" /\ op[c] = "update" /\ pc'[c] # "m_body"
           /\ HasId(memos, argId[c]))
              => LET k == FindIdx(memos, argId[c])
                     u == argUpd[c]
                 IN /\ Len(memos') = Len(memos)
                    /\ \A j \in 1..Len(memos) : j # k => memos'[j] = memos[j]
                    /\ memos'[k].id = memos[k].id
                    /\ memos'[k].title = Supplied(u, "title", memos[k].title)
                    /\ memos'[k].content = Supplied(u, "content", memos[k].content)
                    /\ memos'[k].color = Supplied(u, "color", memos[k].color)
                    /\ memos'[k].window =
                          (IF u.window # None THEN u.window ELSE memos[k].window)
                    /\ memos'[k].updated_at \in Times
                    /\ memoLocal'[c] = Some(memos'[k])
                    /\ res'[c] = "none" /\ pc'[c] = "sched"]_vars

C12_Witness ==
    \E c \in Callers :
        /\ op[c] = "update" /\ pc[c] = "sched" /\ Len(memos) >= 2
        /\ argUpd[c].window = None /\ argUpd[c].content = None
        /\ memoLocal[c][1].title = "t3" /\ memoLocal[c][1].content = ""
        /\ memoLocal[c][1].window = Some(W1) /\ memoLocal[c][1].updated_at = 5
        /\ In(memoLocal[c][1], memos)

\* Memos a and b are equal in every field but updated_at.
SameButTime(a, b) == [a EXCEPT !.updated_at = 0] = [b EXCEPT !.updated_at = 0]

\* C13 (as claimed): when two create_memo calls were given memos that differ
\* only in updated_at, the notes they stored carry the same timestamp.
C13_TimestampSetByService ==
    \A c, d \in Callers :
        (/\ c # d /\ op[c] = "create" /\ op[d] = "create"
         /\ call[c].committed /\ call[d].committed
         /\ SameButTime(memoLocal[c][1], memoLocal[d][1]))
            => \A j, k \in 1..Len(memos) :
                  (/\ SameButTime(memos[j], memoLocal[c][1])
                   /\ SameButTime(memos[k], memoLocal[c][1]))
                      => memos[j].updated_at = memos[k].updated_at

\* C14: a start of the process never fails and leaves save_pending false; it
\* gives the empty store when the file is absent or does not decode, and
\* otherwise the store whose encoding is the file.  Every fs::write that
\* lands leaves a file that decodes to exactly the sequence it was given, so
\* a start yields the sequence last written, in the same order.
C14_StartupLoad ==
    /\ [](nOps = 0 =>
            /\ ~save_pending
            /\ file.kind # "json" => memos = <<>>
            /\ file.kind = "json" => ToJson(memos) = file.body)
    /\ [][/\ (exited /\ ~exited') =>
                /\ ~save_pending'
                /\ file' = file
                /\ file.kind # "json" => memos' = <<>>
                /\ file.kind = "json" => ToJson(memos') = file.body
          /\ \A c \in Callers :
                (~exited /\ pc[c] = "s_write" /\ pc'[c] # "s_write") =>
                    \/ file' = file /\ call'[c].wrote = "err"
                    \/ /\ call'[c].wrote = "ok" /\ file'.kind = "json"
                       /\ FromJson(file'.body) = snap[c]
          /\ \A t \in Tasks :
                (~exited /\ tpc[t] = "write" /\ tpc'[t] # "write") =>
                    \/ file' = file
                    \/ file'.kind = "json" /\ FromJson(file'.body) = tsnap[t]
          /\ file' # file =>
                \/ \E c \in Callers : pc[c] = "s_write" /\ pc'[c] # "s_write"
                \/ \E t \in Tasks : tpc[t] = "write" /\ tpc'[t] # "write"]_vars

C14_Witness ==
    /\ nOps > 0 /\ \A c \in Callers : pc[c] = "idle"
    /\ ~exited /\ ~save_pending /\ file.kind = "json"
    /\ Len(memos) >= 2 /\ memos[1].window # None /\ memos[2].window = None

\* C15 (as claimed): at most one flush thread is alive (spawned and not yet
\* past its save_pending.store(false)) at any time.
C15_AtMostOneTimer == Cardinality({t \in Tasks : Alive(t)}) <= 1

\* C16: no thread is in fs::write while it holds the Mutex.  Every snapshot
\* is cloned from the store under the Mutex, the guard is dropped in the same
\* step, and fs::write is given that snapshot and leaves the Mutex alone.
C16_NoLockDuringIO ==
    /\ [](/\ \A c \in Callers :
               pc[c] \in {"s_write", "s_store"} => lockHolder # CallerH(c)
          /\ \A t \in Tasks :
               tpc[t] \in {"write", "clear"} => lockHolder # TaskH(t))
    /\ [][/\ \A c \in Callers :
               /\ (pc[c] = "s_clone" /\ pc'[c] # "s_clone") =>
                     /\ lockHolder = CallerH(c) /\ lockHolder' = NoHolder
                     /\ snap'[c] = memos /\ pc'[c] = "s_write"
               /\ (pc[c] = "s_write" /\ pc'[c] # "s_write") =>
                     /\ file' \in {file, FileJson(snap[c])}
                     /\ lockHolder' = lockHolder /\ memos' = memos
          /\ \A t \in Tasks :
               /\ (tpc[t] = "clone" /\ tpc'[t] # "clone") =>
                     /\ lockHolder = TaskH(t) /\ lockHolder' = NoHolder
                     /\ tsnap'[t] = memos /\ tpc'[t] = "write"
               /\ (tpc[t] = "write" /\ tpc'[t] # "write") =>
                     /\ file' \in {file, FileJson(tsnap[t])}
                     /\ lockHolder' = lockHolder /\ memos' = memos]_vars

C16_Witness ==
    \E c \in Callers, t \in Tasks :
        /\ pc[c] = "s_write" /\ lockHolder = TaskH(t)
        /\ snap[c] # <<>> /\ snap[c] = memos

\* C17: a flush thread goes on to its flag reset whatever its fs::write
\* returned, in particular when the write failed (the file is not the
\* snapshot), and the reset stores false; a schedule_save that finds the flag
\* false sets it and spawns a new flush thread.
C17_FailedFlushClearsFlag ==
    [][/\ \A t \in Tasks :
            /\ (tpc[t] = "write" /\ tpc'[t] # "write") =>
                  (tpc'[t] = "clear" /\ save_pending' = save_pending)
            /\ (tpc[t] = "write" /\ tpc'[t] # "write" /\ file' # FileJson(tsnap[t])) =>
                  (tpc'[t] = "clear" /\ file' = file)
            /\ (tpc[t] = "clear" /\ tpc'[t] # "clear") =>
                  (tpc'[t] = "done" /\ ~save_pending')
      /\ \A c \in Callers :
            (pc[c] = "sched" /\ pc'[c] # "sched" /\ ~save_pending) =>
                /\ save_pending' /\ nTasks' = nTasks + 1
                /\ tpc[nTasks'] = "unborn" /\ tpc'[nTasks'] = "sleep"]_vars

\* Two commands ran, both armed a flush thread, the first thread has ended
\* and the file is still absent: its write failed, and the second command
\* found the flag clear.
C17_Witness ==
    /\ file.kind = "absent" /\ nOps = 2 /\ nTasks = 2
    /\ tpc[1] = "done" /\ tpc[2] = "sleep" /\ save_pending

\* Some thread is between the two system calls of fs::write.
InWrite ==
    \/ \E c \in Callers : pc[c] = "s_wrall"
    \/ \E t \in Tasks : tpc[t] = "wrall"

\* All commands so far were run by one caller thread.
OneCaller == Cardinality({c \in Callers : op[c] # "none"}) <= 1

\* C18 (as claimed): whenever no fs::write is in progress, the file is the
\* one found at startup or the complete encoding of one sequence: it is
\* neither truncated nor a mixture of two snapshots.  Stated for the runs
\* with one caller thread, where the only racing writers are a caller's
\* immediate flush and the flush threads.
C18_FileIsWholeSnapshot ==
    (OneCaller /\ ~InWrite) =>
        \/ file.kind \in {"absent", "garbage"}
        \/ file.kind = "json" /\ file = FileJson(FileMemos)

\* C19: whenever save_pending is set, a flush thread is alive that has its
\* save_pending.store(false) still to run; and while the process runs, a
\* set flag is eventually cleared.
C19_FlagNotStuck ==
    /\ [](save_pending => \E t \in Tasks : Alive(t))
    /\ (save_pending ~> (~save_pending \/ exited))

\* The flag was set again after the first flush thread had cleared it.
C19_Witness ==
    /\ save_pending /\ ~exited
    /\ tpc[1] = "done" /\ tpc[2] = "clear" /\ tpc[3] = "unborn"

\* C20 (as claimed): a create_memo, update_memo or delete_memo that returns
\* an error to its caller has not changed the store.
C20_ErrorsLeaveStore ==
    \A c \in Callers :
        (/\ pc[c] = "done" /\ op[c] \in {"create", "update", "delete"}
         /\ res[c] \in {"NotFound", "StorageErr"})
            => ~call[c].committed

====
